---- MODULE Spec2Model ----
(***************************************************************************)
(* Model of the historical-bar ingestion pipeline (src/src/data_ingest.py) *)
(* and of the pooled HTTP session (src/src/api_client.py).                 *)
(*                                                                         *)
(* Conventions                                                             *)
(*   - a Python str is a sequence of one-character strings; a character   *)
(*     that has no TLA+ literal is written as its code point, "U+0663";    *)
(*   - a datetime is a whole number of hours since the epoch (UTC);        *)
(*   - a bar timestamp is a whole number of milliseconds since the epoch,  *)
(*     NaT is the value NaT;                                               *)
(*   - a price or volume is held in tenths (95 is 9.5) together with its   *)
(*     kind: "int", "float", "nan" (float NaN) or "none" (Python None);    *)
(*   - a call is one action; its arguments are kept in arg, its return     *)
(*     value or the exception it raised in ret.                            *)
(***************************************************************************)
EXTENDS Integers, Sequences, FiniteSets, TLC

VARIABLES
    op,             \* name of the last call that completed ("init": none yet)
    arg,            \* the arguments of that call (for api_client: the calls made so far)
    ret,            \* [exc |-> exception raised or "none", val |-> value returned]
    stdout,         \* what the call printed (the gap report side channel)
    dirs,           \* filesystem: the directories that exist
    files,          \* filesystem: path -> content of the files that exist (the
                    \* cache files and the token file)
    fs0,            \* the filesystem at the entry of the last call
    _session,       \* api_client._session: 0 is None, n > 0 is the n-th Session built
    session_calls,  \* how often requests.Session() has been invoked
    session_rets,   \* the instances _session_pooled has returned so far
    TEST_MODE,      \* token_manager.TEST_MODE (PYTHON_ENV=test at import)
    wire,           \* the HTTP requests sent so far, the adapter's re-sends
                    \* included: <<session, token, status answered>>
    local           \* what the caller holds: the tables and paths earlier calls returned

vars == <<op, arg, ret, stdout, dirs, files, fs0, local,
          _session, session_calls, session_rets, TEST_MODE, wire>>

session_vars == <<_session, session_calls, session_rets, TEST_MODE, wire>>

\* ------------------------------------------------------------------ bounds

MaxIntervalLen == 3
MaxSessionCalls == 3
MaxCandles == 4
MaxTypedCandles == 3
MaxPathCalls == 2
MaxFetches == 2

\* ------------------------------------------------------------ Python str

Digits == {"0", "1", "2", "3", "4", "5", "6", "7", "8", "9"}

\* The characters int() reads as decimal digits (Unicode category Nd), one
\* row per script, each row in the order of its digits' values 0..9
DecimalDigits ==
    {<<"0", "1", "2", "3", "4", "5", "6", "7", "8", "9">>,
     <<"U+0660", "U+0661", "U+0662", "U+0663", "U+0664", "U+0665", "U+0666", "U+0667", "U+0668", "U+0669">>,
     <<"U+06F0", "U+06F1", "U+06F2", "U+06F3", "U+06F4", "U+06F5", "U+06F6", "U+06F7", "U+06F8", "U+06F9">>,
     <<"U+07C0", "U+07C1", "U+07C2", "U+07C3", "U+07C4", "U+07C5", "U+07C6", "U+07C7", "U+07C8", "U+07C9">>,
     <<"U+0966", "U+0967", "U+0968", "U+0969", "U+096A", "U+096B", "U+096C", "U+096D", "U+096E", "U+096F">>,
     <<"U+09E6", "U+09E7", "U+09E8", "U+09E9", "U+09EA", "U+09EB", "U+09EC", "U+09ED", "U+09EE", "U+09EF">>,
     <<"U+0A66", "U+0A67", "U+0A68", "U+0A69", "U+0A6A", "U+0A6B", "U+0A6C", "U+0A6D", "U+0A6E", "U+0A6F">>,
     <<"U+0AE6", "U+0AE7", "U+0AE8", "U+0AE9", "U+0AEA", "U+0AEB", "U+0AEC", "U+0AED", "U+0AEE", "U+0AEF">>,
     <<"U+0B66", "U+0B67", "U+0B68", "U+0B69", "U+0B6A", "U+0B6B", "U+0B6C", "U+0B6D", "U+0B6E", "U+0B6F">>,
     <<"U+0BE6", "U+0BE7", "U+0BE8", "U+0BE9", "U+0BEA", "U+0BEB", "U+0BEC", "U+0BED", "U+0BEE", "U+0BEF">>,
     <<"U+0C66", "U+0C67", "U+0C68", "U+0C69", "U+0C6A", "U+0C6B", "U+0C6C", "U+0C6D", "U+0C6E", "U+0C6F">>,
     <<"U+0CE6", "U+0CE7", "U+0CE8", "U+0CE9", "U+0CEA", "U+0CEB", "U+0CEC", "U+0CED", "U+0CEE", "U+0CEF">>,
     <<"U+0D66", "U+0D67", "U+0D68", "U+0D69", "U+0D6A", "U+0D6B", "U+0D6C", "U+0D6D", "U+0D6E", "U+0D6F">>,
     <<"U+0DE6", "U+0DE7", "U+0DE8", "U+0DE9", "U+0DEA", "U+0DEB", "U+0DEC", "U+0DED", "U+0DEE", "U+0DEF">>,
     <<"U+0E50", "U+0E51", "U+0E52", "U+0E53", "U+0E54", "U+0E55", "U+0E56", "U+0E57", "U+0E58", "U+0E59">>,
     <<"U+0ED0", "U+0ED1", "U+0ED2", "U+0ED3", "U+0ED4", "U+0ED5", "U+0ED6", "U+0ED7", "U+0ED8", "U+0ED9">>,
     <<"U+0F20", "U+0F21", "U+0F22", "U+0F23", "U+0F24", "U+0F25", "U+0F26", "U+0F27", "U+0F28", "U+0F29">>,
     <<"U+1040", "U+1041", "U+1042", "U+1043", "U+1044", "U+1045", "U+1046", "U+1047", "U+1048", "U+1049">>,
     <<"U+1090", "U+1091", "U+1092", "U+1093", "U+1094", "U+1095", "U+1096", "U+1097", "U+1098", "U+1099">>,
     <<"U+17E0", "U+17E1", "U+17E2", "U+17E3", "U+17E4", "U+17E5", "U+17E6", "U+17E7", "U+17E8", "U+17E9">>,
     <<"U+1810", "U+1811", "U+1812", "U+1813", "U+1814", "U+1815", "U+1816", "U+1817", "U+1818", "U+1819">>,
     <<"U+1946", "U+1947", "U+1948", "U+1949", "U+194A", "U+194B", "U+194C", "U+194D", "U+194E", "U+194F">>,
     <<"U+19D0", "U+19D1", "U+19D2", "U+19D3", "U+19D4", "U+19D5", "U+19D6", "U+19D7", "U+19D8", "U+19D9">>,
     <<"U+1A80", "U+1A81", "U+1A82", "U+1A83", "U+1A84", "U+1A85", "U+1A86", "U+1A87", "U+1A88", "U+1A89">>,
     <<"U+1A90", "U+1A91", "U+1A92", "U+1A93", "U+1A94", "U+1A95", "U+1A96", "U+1A97", "U+1A98", "U+1A99">>,
     <<"U+1B50", "U+1B51", "U+1B52", "U+1B53", "U+1B54", "U+1B55", "U+1B56", "U+1B57", "U+1B58", "U+1B59">>,
     <<"U+1BB0", "U+1BB1", "U+1BB2", "U+1BB3", "U+1BB4", "U+1BB5", "U+1BB6", "U+1BB7", "U+1BB8", "U+1BB9">>,
     <<"U+1C40", "U+1C41", "U+1C42", "U+1C43", "U+1C44", "U+1C45", "U+1C46", "U+1C47", "U+1C48", "U+1C49">>,
     <<"U+1C50", "U+1C51", "U+1C52", "U+1C53", "U+1C54", "U+1C55", "U+1C56", "U+1C57", "U+1C58", "U+1C59">>,
     <<"U+A620", "U+A621", "U+A622", "U+A623", "U+A624", "U+A625", "U+A626", "U+A627", "U+A628", "U+A629">>,
     <<"U+A8D0", "U+A8D1", "U+A8D2", "U+A8D3", "U+A8D4", "U+A8D5", "U+A8D6", "U+A8D7", "U+A8D8", "U+A8D9">>,
     <<"U+A900", "U+A901", "U+A902", "U+A903", "U+A904", "U+A905", "U+A906", "U+A907", "U+A908", "U+A909">>,
     <<"U+A9D0", "U+A9D1", "U+A9D2", "U+A9D3", "U+A9D4", "U+A9D5", "U+A9D6", "U+A9D7", "U+A9D8", "U+A9D9">>,
     <<"U+A9F0", "U+A9F1", "U+A9F2", "U+A9F3", "U+A9F4", "U+A9F5", "U+A9F6", "U+A9F7", "U+A9F8", "U+A9F9">>,
     <<"U+AA50", "U+AA51", "U+AA52", "U+AA53", "U+AA54", "U+AA55", "U+AA56", "U+AA57", "U+AA58", "U+AA59">>,
     <<"U+ABF0", "U+ABF1", "U+ABF2", "U+ABF3", "U+ABF4", "U+ABF5", "U+ABF6", "U+ABF7", "U+ABF8", "U+ABF9">>,
     <<"U+FF10", "U+FF11", "U+FF12", "U+FF13", "U+FF14", "U+FF15", "U+FF16", "U+FF17", "U+FF18", "U+FF19">>,
     <<"U+104A0", "U+104A1", "U+104A2", "U+104A3", "U+104A4", "U+104A5", "U+104A6", "U+104A7", "U+104A8", "U+104A9">>,
     <<"U+10D30", "U+10D31", "U+10D32", "U+10D33", "U+10D34", "U+10D35", "U+10D36", "U+10D37", "U+10D38", "U+10D39">>,
     <<"U+11066", "U+11067", "U+11068", "U+11069", "U+1106A", "U+1106B", "U+1106C", "U+1106D", "U+1106E", "U+1106F">>,
     <<"U+110F0", "U+110F1", "U+110F2", "U+110F3", "U+110F4", "U+110F5", "U+110F6", "U+110F7", "U+110F8", "U+110F9">>,
     <<"U+11136", "U+11137", "U+11138", "U+11139", "U+1113A", "U+1113B", "U+1113C", "U+1113D", "U+1113E", "U+1113F">>,
     <<"U+111D0", "U+111D1", "U+111D2", "U+111D3", "U+111D4", "U+111D5", "U+111D6", "U+111D7", "U+111D8", "U+111D9">>,
     <<"U+112F0", "U+112F1", "U+112F2", "U+112F3", "U+112F4", "U+112F5", "U+112F6", "U+112F7", "U+112F8", "U+112F9">>,
     <<"U+11450", "U+11451", "U+11452", "U+11453", "U+11454", "U+11455", "U+11456", "U+11457", "U+11458", "U+11459">>,
     <<"U+114D0", "U+114D1", "U+114D2", "U+114D3", "U+114D4", "U+114D5", "U+114D6", "U+114D7", "U+114D8", "U+114D9">>,
     <<"U+11650", "U+11651", "U+11652", "U+11653", "U+11654", "U+11655", "U+11656", "U+11657", "U+11658", "U+11659">>,
     <<"U+116C0", "U+116C1", "U+116C2", "U+116C3", "U+116C4", "U+116C5", "U+116C6", "U+116C7", "U+116C8", "U+116C9">>,
     <<"U+11730", "U+11731", "U+11732", "U+11733", "U+11734", "U+11735", "U+11736", "U+11737", "U+11738", "U+11739">>,
     <<"U+118E0", "U+118E1", "U+118E2", "U+118E3", "U+118E4", "U+118E5", "U+118E6", "U+118E7", "U+118E8", "U+118E9">>,
     <<"U+11950", "U+11951", "U+11952", "U+11953", "U+11954", "U+11955", "U+11956", "U+11957", "U+11958", "U+11959">>,
     <<"U+11C50", "U+11C51", "U+11C52", "U+11C53", "U+11C54", "U+11C55", "U+11C56", "U+11C57", "U+11C58", "U+11C59">>,
     <<"U+11D50", "U+11D51", "U+11D52", "U+11D53", "U+11D54", "U+11D55", "U+11D56", "U+11D57", "U+11D58", "U+11D59">>,
     <<"U+11DA0", "U+11DA1", "U+11DA2", "U+11DA3", "U+11DA4", "U+11DA5", "U+11DA6", "U+11DA7", "U+11DA8", "U+11DA9">>,
     <<"U+16A60", "U+16A61", "U+16A62", "U+16A63", "U+16A64", "U+16A65", "U+16A66", "U+16A67", "U+16A68", "U+16A69">>,
     <<"U+16AC0", "U+16AC1", "U+16AC2", "U+16AC3", "U+16AC4", "U+16AC5", "U+16AC6", "U+16AC7", "U+16AC8", "U+16AC9">>,
     <<"U+16B50", "U+16B51", "U+16B52", "U+16B53", "U+16B54", "U+16B55", "U+16B56", "U+16B57", "U+16B58", "U+16B59">>,
     <<"U+1D7CE", "U+1D7CF", "U+1D7D0", "U+1D7D1", "U+1D7D2", "U+1D7D3", "U+1D7D4", "U+1D7D5", "U+1D7D6", "U+1D7D7">>,
     <<"U+1D7D8", "U+1D7D9", "U+1D7DA", "U+1D7DB", "U+1D7DC", "U+1D7DD", "U+1D7DE", "U+1D7DF", "U+1D7E0", "U+1D7E1">>,
     <<"U+1D7E2", "U+1D7E3", "U+1D7E4", "U+1D7E5", "U+1D7E6", "U+1D7E7", "U+1D7E8", "U+1D7E9", "U+1D7EA", "U+1D7EB">>,
     <<"U+1D7EC", "U+1D7ED", "U+1D7EE", "U+1D7EF", "U+1D7F0", "U+1D7F1", "U+1D7F2", "U+1D7F3", "U+1D7F4", "U+1D7F5">>,
     <<"U+1D7F6", "U+1D7F7", "U+1D7F8", "U+1D7F9", "U+1D7FA", "U+1D7FB", "U+1D7FC", "U+1D7FD", "U+1D7FE", "U+1D7FF">>,
     <<"U+1E140", "U+1E141", "U+1E142", "U+1E143", "U+1E144", "U+1E145", "U+1E146", "U+1E147", "U+1E148", "U+1E149">>,
     <<"U+1E2F0", "U+1E2F1", "U+1E2F2", "U+1E2F3", "U+1E2F4", "U+1E2F5", "U+1E2F6", "U+1E2F7", "U+1E2F8", "U+1E2F9">>,
     <<"U+1E950", "U+1E951", "U+1E952", "U+1E953", "U+1E954", "U+1E955", "U+1E956", "U+1E957", "U+1E958", "U+1E959">>,
     <<"U+1FBF0", "U+1FBF1", "U+1FBF2", "U+1FBF3", "U+1FBF4", "U+1FBF5", "U+1FBF6", "U+1FBF7", "U+1FBF8", "U+1FBF9">>}

IsDecimal(c) == \E row \in DecimalDigits : \E i \in 1..10 : row[i] = c

\* The value of a decimal digit
DigitVal(c) == (CHOOSE i \in 1..10 : \E row \in DecimalDigits : row[i] = c) - 1

\* The characters int() strips from both ends of its argument
Whitespace ==
    {" ", "\t", "\n", "\r", "\f", "U+000B", "U+0085", "U+00A0", "U+1680",
     "U+2000", "U+2001", "U+2002", "U+2003", "U+2004", "U+2005", "U+2006",
     "U+2007", "U+2008", "U+2009", "U+200A", "U+2028", "U+2029", "U+202F",
     "U+205F", "U+3000"}

RECURSIVE lstrip(_)
lstrip(s) == IF s # <<>> /\ Head(s) \in Whitespace THEN lstrip(Tail(s)) ELSE s

RECURSIVE rstrip(_)
rstrip(s) ==
    IF s # <<>> /\ s[Len(s)] \in Whitespace THEN rstrip(SubSeq(s, 1, Len(s) - 1)) ELSE s

strip(s) == rstrip(lstrip(s))

\* str.upper() on the letters the model uses
UpperChar(c) ==
    CASE c = "a" -> "A" [] c = "b" -> "B" [] c = "n" -> "N"
      [] c = "w" -> "W" [] c = "l" -> "L" [] OTHER -> c

upper(s) == [i \in 1..Len(s) |-> UpperChar(s[i])]

\* s.endswith(c) for a one-character c
endswith(s, c) == Len(s) > 0 /\ s[Len(s)] = c

\* s.replace(c, "") for a one-character c: every occurrence is removed
replace_with_empty(s, c) == SelectSeq(s, LAMBDA ch : ch # c)

\* The part of a stripped int() literal after its sign
IntBody(s) == IF s # <<>> /\ Head(s) \in {"-", "+"} THEN Tail(s) ELSE s

\* sys.get_int_max_str_digits(): the most digits int() converts (CPython's
\* default, which the program never changes)
INT_MAX_STR_DIGITS == 4300

\* int(s) returns (does not raise ValueError): surrounding whitespace is
\* stripped, then an optional sign, then decimal digits of any script that
\* single underscores may separate, at most INT_MAX_STR_DIGITS of them
\* (leading zeros count, underscores do not).
PyIntOk(s) ==
    LET b == IntBody(strip(s)) IN
      /\ b # <<>>
      /\ Len(SelectSeq(b, IsDecimal)) <= INT_MAX_STR_DIGITS
      /\ \A i \in 1..Len(b) : IsDecimal(b[i]) \/ b[i] = "_"
      /\ IsDecimal(b[1])
      /\ IsDecimal(b[Len(b)])
      /\ \A i \in 1..(Len(b) - 1) : ~(b[i] = "_" /\ b[i + 1] = "_")

RECURSIVE DecVal(_)
DecVal(ds) ==
    IF ds = <<>> THEN 0
    ELSE 10 * DecVal(SubSeq(ds, 1, Len(ds) - 1)) + DigitVal(ds[Len(ds)])

\* int(s) when PyIntOk(s) (evaluated here for values below 2^31 only)
PyInt(s) ==
    LET t == strip(s)
        v == DecVal(SelectSeq(IntBody(t), IsDecimal))
    IN IF t # <<>> /\ Head(t) = "-" THEN 0 - v ELSE v

\* All sequences over S of length 0..n
RECURSIVE SeqsUpTo(_, _)
SeqsUpTo(S, n) ==
    IF n = 0 THEN {<<>>}
    ELSE LET shorter == SeqsUpTo(S, n - 1) IN
           shorter \cup {Append(s, x) : s \in {t \in shorter : Len(t) = n - 1}, x \in S}

Returned(v) == [exc |-> "none", val |-> v]
Raised(e) == [exc |-> e, val |-> <<>>]

\* The caller's locals with `name` bound to v
Bind(l, name, v) == [n \in DOMAIN l \cup {name} |-> IF n = name THEN v ELSE l[n]]

\* The api_client and token_manager state of a process that has sent nothing
SessionIdle ==
    /\ _session = 0 /\ session_calls = 0 /\ session_rets = {}
    /\ TEST_MODE = FALSE /\ wire = <<>>

\* -------------------------------------------------- build_history_endpoint

MS_PER_HOUR == 3600000

MutFrequencyDefaultsOnBadInt(interval) ==
    IF endswith(interval, "m")
    THEN IF PyIntOk(replace_with_empty(interval, "m"))
         THEN Returned([frequencyType |-> "minute",
                        frequency |-> PyInt(replace_with_empty(interval, "m"))])
         ELSE Returned([frequencyType |-> "daily", frequency |-> 1])
    ELSE IF interval \in {<<"6", "0", "m">>, <<"1", "h">>}
    THEN Returned([frequencyType |-> "minute", frequency |-> 60])
    ELSE Returned([frequencyType |-> "daily", frequency |-> 1])

\* The if/elif/else of build_history_endpoint: frequency_type and frequency,
\* or the ValueError of int()
frequency_of(interval) ==
    IF endswith(interval, "m")
    THEN IF PyIntOk(replace_with_empty(interval, "m"))
         THEN Returned([frequencyType |-> "minute",
                        frequency |-> PyInt(replace_with_empty(interval, "m"))])
         ELSE Raised("ValueError")
    ELSE IF interval \in {<<"6", "0", "m">>, <<"1", "h">>}
    THEN Returned([frequencyType |-> "minute", frequency |-> 60])
    ELSE Returned([frequencyType |-> "daily", frequency |-> 1])

build_history_endpoint(req) ==
    LET f == frequency_of(req.interval) IN
      IF f.exc # "none" THEN f
      ELSE Returned([endpoint |-> "marketdata/v1/pricehistory",
                     symbol |-> upper(req.symbol),
                     frequencyType |-> f.val.frequencyType,
                     frequency |-> f.val.frequency,
                     startDate |-> req.start_utc * MS_PER_HOUR,
                     endDate |-> req.end_utc * MS_PER_HOUR,
                     needExtendedHoursData |-> "false"])

IntervalChars == {"0", "1", "3", "6", "m", "h", "d", "-", "_", " ", "U+0663"}

\* n times the digit '1', then 'm'
OnesThenM(n) == [i \in 1..(n + 1) |-> IF i <= n THEN "1" ELSE "m"]

\* Every short interval, and one with a digit more than int() converts
EndpointIntervals ==
    SeqsUpTo(IntervalChars, MaxIntervalLen) \cup {OnesThenM(INT_MAX_STR_DIGITS + 1)}

NWL == <<"N", "W", "L">>
nwl == <<"n", "w", "l">>

InitEndpoint ==
    /\ op = "init"
    /\ arg \in [symbol : {nwl}, interval : EndpointIntervals,
                start_utc : {0}, end_utc : {24}]
    /\ ret = Returned(<<>>)
    /\ stdout = <<>> /\ dirs = {} /\ files = <<>> /\ fs0 = <<{}, <<>>>> /\ local = <<>>
    /\ SessionIdle

BuildHistoryEndpoint ==
    /\ op = "init"
    /\ op' = "build_history_endpoint"
    /\ ret' = build_history_endpoint(arg)
    /\ fs0' = <<dirs, files>>
    /\ UNCHANGED <<arg, stdout, dirs, files, local, session_vars>>

NextEndpoint == BuildHistoryEndpoint

SpecEndpoint == InitEndpoint /\ [][NextEndpoint]_vars

\* ------------------------------------------------------------ api_client

MutSessionAlwaysBuilt(session) == TRUE

\* `if _session is None`
session_is_none(session) == session = 0

\* _session_pooled(): <<instance returned, _session after, constructor calls after>>
session_pooled(session, calls) ==
    IF session_is_none(session)
    THEN <<calls + 1, calls + 1, calls + 1>>
    ELSE <<session, session, calls>>

\* token_manager.TOKEN_PATH: the file marketdata_token.json in the
\* repository root, a path of one component
TOKEN_PATH ==
    << <<"m", "a", "r", "k", "e", "t", "d", "a", "t", "a", "_",
         "t", "o", "k", "e", "n", ".", "j", "s", "o", "n">> >>

\* A token file: its access_token and its expires_at, a time held as the
\* number of HTTP requests sent before the file was written
TokenFile(token, now) == [access_token |-> token, expires_at |-> now]

\* A file at TOKEN_PATH that json.loads cannot read
UnreadableToken == [text |-> "not json"]

\* A file at TOKEN_PATH holding a JSON object without the key access_token
KeylessToken == [expires_at |-> 0]

\* _load_token_from_disk(): the access_token, <<>> for None (no file, or a
\* file that json.loads cannot read); data.get("access_token", "") gives ""
\* for a JSON object without the key
load_token_from_disk(fs) ==
    IF TOKEN_PATH \notin DOMAIN fs THEN <<>>
    ELSE IF "text" \in DOMAIN fs[TOKEN_PATH] THEN <<>>
    ELSE IF "access_token" \in DOMAIN fs[TOKEN_PATH]
    THEN <<fs[TOKEN_PATH].access_token>>
    ELSE <<"">>

\* _save_token_to_disk(token): the files afterwards
save_token_to_disk(fs, token, now) ==
    [p \in DOMAIN fs \cup {TOKEN_PATH} |->
       IF p = TOKEN_PATH THEN TokenFile(token, now) ELSE fs[p]]

\* token_manager.get_access_token(): <<token, files afterwards>>
get_access_token(test_mode, fs, now) ==
    IF test_mode THEN <<"test-token", fs>>
    ELSE IF load_token_from_disk(fs) = <<>>
    THEN <<"local-placeholder-token",
           save_token_to_disk(fs, "local-placeholder-token", now)>>
    ELSE <<load_token_from_disk(fs)[1], fs>>

\* token_manager.refresh_access_token(): the files afterwards
refresh_access_token(test_mode, fs, now) ==
    IF test_mode THEN fs ELSE save_token_to_disk(fs, "local-refreshed-token", now)

\* Retry(total=3, status_forcelist=(429, 500, 502, 503, 504),
\* raise_on_status=False) on the adapter mounted on the session
RETRY_TOTAL == 3
STATUS_FORCELIST == {429, 500, 502, 503, 504}

\* What the server does during one _request: the statuses it answers the
\* successive HTTP requests with (past its end the last status repeats)
ServerScripts ==
    {<<200>>, <<401>>, <<500>>, <<401, 200>>, <<500, 200>>,
     <<401, 500, 200>>, <<500, 401, 200>>}

answer(script, n) == script[IF n <= Len(script) THEN n ELSE Len(script)]

\* One s.request(...) call whose first HTTP request is the p-th of the
\* script: the statuses of the HTTP requests it sends. A status of the
\* forcelist is re-sent while retries are left; the last response is returned.
RECURSIVE session_request(_, _, _)
session_request(script, p, retries) ==
    LET st == answer(script, p) IN
      IF st \in STATUS_FORCELIST /\ retries > 0
      THEN <<st>> \o session_request(script, p + 1, retries - 1)
      ELSE <<st>>

\* resp.status_code of the first s.request call of _request
first_status(script) ==
    LET a1 == session_request(script, 1, RETRY_TOTAL) IN a1[Len(a1)]
Bodies == {"json", "text"}

\* resp.raise_for_status() raises for 4xx and 5xx
raise_for_status(status) == IF status >= 400 THEN Raised("HTTPError") ELSE Returned(status)

\* _parse_json(resp)
parse_json(status, body) ==
    IF body = "json" THEN [json |-> TRUE, status_code |-> status]
    ELSE [json |-> FALSE, status_code |-> status]

\* The files a process can find at start: no token file, a token file, or
\* one that cannot be read
TokenFiles ==
    {<<>>,
     [p \in {TOKEN_PATH} |-> TokenFile("disk-token", 0)],
     [p \in {TOKEN_PATH} |-> KeylessToken],
     [p \in {TOKEN_PATH} |-> UnreadableToken]}

InitSession ==
    /\ op = "init" /\ arg = <<>> /\ ret = Returned(0)
    /\ stdout = <<>> /\ dirs = {} /\ local = <<>>
    /\ files \in TokenFiles /\ fs0 = <<{}, files>>
    /\ _session = 0 /\ session_calls = 0 /\ session_rets = {}
    /\ TEST_MODE \in BOOLEAN
    /\ wire = <<>>

\* A direct call of _session_pooled()
SessionPooled ==
    /\ Len(arg) < MaxSessionCalls
    /\ LET r == session_pooled(_session, session_calls) IN
         /\ ret' = Returned(r[1])
         /\ _session' = r[2]
         /\ session_calls' = r[3]
         /\ session_rets' = session_rets \cup {r[1]}
    /\ op' = "_session_pooled"
    /\ arg' = Append(arg, "_session_pooled")
    /\ fs0' = <<dirs, files>>
    /\ UNCHANGED <<stdout, dirs, files, local, TEST_MODE, wire>>

\* What _request leaves behind when the server follows `script`: the module
\* session, the instance used, the files (the token file is written by
\* get_access_token and refresh_access_token) and the HTTP requests sent
request_effect(script) ==
    LET r == session_pooled(_session, session_calls)
        t1 == get_access_token(TEST_MODE, files, Len(wire))
        a1 == session_request(script, 1, RETRY_TOTAL)
        retried == first_status(script) = 401
        sent1 == wire \o [i \in 1..Len(a1) |-> <<r[1], t1[1], a1[i]>>]
        fs2 == refresh_access_token(TEST_MODE, t1[2], Len(sent1))
        t2 == get_access_token(TEST_MODE, fs2, Len(sent1))
        a2 == session_request(script, Len(a1) + 1, RETRY_TOTAL)
    IN [instance |-> r[1], session |-> r[2], calls |-> r[3],
        files |-> IF retried THEN t2[2] ELSE t1[2],
        wire |-> IF retried
                 THEN sent1 \o [i \in 1..Len(a2) |-> <<r[1], t2[1], a2[i]>>]
                 ELSE sent1]

\* The api_client state after _request
SessionAfter(e) ==
    /\ _session' = e.session
    /\ session_calls' = e.calls
    /\ session_rets' = session_rets \cup {e.instance}
    /\ wire' = e.wire
    /\ UNCHANGED TEST_MODE

\* One _request whose caller touches no file itself
Transport(script) ==
    /\ SessionAfter(request_effect(script))
    /\ files' = request_effect(script).files

\* resp.status_code when _request reaches raise_for_status
last_status(script) ==
    LET a1 == session_request(script, 1, RETRY_TOTAL)
        a2 == session_request(script, Len(a1) + 1, RETRY_TOTAL)
    IN IF first_status(script) = 401 THEN a2[Len(a2)] ELSE first_status(script)

\* get(endpoint) or post(endpoint, payload): _request, then _parse_json;
\* body is the kind of the last answer's body.
Request(method, script, body) ==
    /\ Len(arg) < MaxSessionCalls
    /\ Transport(script)
    /\ ret' = IF raise_for_status(last_status(script)).exc # "none"
              THEN raise_for_status(last_status(script))
              ELSE Returned(parse_json(last_status(script), body))
    /\ op' = method
    /\ arg' = Append(arg, method)
    /\ fs0' = <<dirs, files>>
    /\ UNCHANGED <<stdout, dirs, local>>

Get == \E script \in ServerScripts, body \in Bodies : Request("get", script, body)

Post == \E script \in ServerScripts, body \in Bodies : Request("post", script, body)

NextSession == SessionPooled \/ Get \/ Post

SpecSession == InitSession /\ [][NextSession]_vars

\* ------------------------------------------------------------ JSON values

\* A JSON value under a payload key: t is its kind, v the candles of a list
JNull == [t |-> "null", v |-> <<>>]
JList(cs) == [t |-> "list", v |-> cs]
JOther(kind) == [t |-> kind, v |-> <<>>]

\* Python truthiness: None, False, 0, "", {} and [] are falsy
Truthy(j) ==
    \/ j.t \in {"dict", "str", "int", "true"}
    \/ (j.t = "list" /\ j.v # <<>>)

\* `a or b`
PyOr(a, b) == IF Truthy(a) THEN a ELSE b

\* payload.get(key): None when the key is absent
payload_get(payload, key) ==
    IF payload[key].t = "absent" THEN JNull ELSE payload[key]

\* A cell of a candle: k is "missing" (no such key), "null", "int", "float"
\* or "str" (a text that is no number); v is milliseconds for datetime/time
\* and tenths for prices and volumes.
Missing == [k |-> "missing", v |-> 0]
Null == [k |-> "null", v |-> 0]
IntCell(n) == [k |-> "int", v |-> n]
FltCell(n) == [k |-> "float", v |-> n]
StrCell == [k |-> "str", v |-> 0]

CandleKeys == {"datetime", "time", "open", "high", "low", "close", "volume", "vol"}
NoCandle == [key \in CandleKeys |-> Missing]

\* ------------------------------------------------------------ DataFrame

NaT == -1
NaN == [k |-> "nan", v |-> 0]
None == [k |-> "none", v |-> 0]

Columns == <<"ts", "open", "high", "low", "close", "volume">>
ValueColumns == {"open", "high", "low", "close", "volume"}

\* pd.DataFrame(columns=[...]): no rows, every column of dtype object
EmptyFrame ==
    [columns |-> Columns,
     dtypes |-> [c \in {"ts"} \cup ValueColumns |-> "object"],
     rows |-> <<>>]

\* key in df.columns, for df = pd.DataFrame(candles)
has_column(candles, key) == \E i \in 1..Len(candles) : candles[i][key].k # "missing"

\* pd.DataFrame(candles).empty: no row or no column
frame_empty(candles) == candles = <<>> \/ \A key \in CandleKeys : ~has_column(candles, key)

\* pd.to_datetime(cell, unit="ms", utc=True, errors="coerce") of one cell
to_datetime(cell) ==
    CASE cell.k = "int" -> cell.v
      [] cell.k \in {"missing", "null", "str"} -> NaT

\* Some candle has a text under `key`
has_text(candles, key) == \E i \in 1..Len(candles) : candles[i][key].k = "str"

\* dtype pandas infers for the column `key` of pd.DataFrame(candles), as
\* df.get(key) returns it; a key no candle has gives None, which the
\* DataFrame constructor broadcasts to an object column. A text anywhere in
\* the column keeps it an object column.
column_dtype(candles, key) ==
    LET cells == {candles[i][key] : i \in 1..Len(candles)} IN
      IF ~has_column(candles, key) THEN "object"
      ELSE IF has_text(candles, key) THEN "object"
      ELSE IF \A c \in cells : c.k = "int" THEN "int64"
      ELSE IF \E c \in cells : c.k \in {"int", "float", "missing"} THEN "float64"
      ELSE "object"

\* The value of candle i in that column: a numeric column converts its
\* cells; an object column that holds a text keeps every cell as it came
\* (NaN where the key is missing); an object column without text holds None.
column_value(candles, key, i) ==
    LET cell == candles[i][key]
        dtype == column_dtype(candles, key)
    IN CASE dtype = "int64" -> [k |-> "int", v |-> cell.v]
         [] dtype = "float64" ->
              IF cell.k \in {"int", "float"} THEN [k |-> "float", v |-> cell.v] ELSE NaN
         [] dtype = "object" /\ has_text(candles, key) ->
              IF cell.k = "missing" THEN NaN
              ELSE IF cell.k = "null" THEN None
              ELSE [k |-> cell.k, v |-> cell.v]
         [] OTHER -> None

\* ------------------------------------------------- parse_history_payload

MutMissingKeysRaise(payload) ==
    IF payload["candles"].t = "list" THEN payload["candles"]
    ELSE IF payload["data"].t = "list" THEN payload["data"]
    ELSE JOther("dict")

\* candles = payload.get("candles") or payload.get("data") or []
candles_of(payload) ==
    PyOr(PyOr(payload_get(payload, "candles"), payload_get(payload, "data")), JList(<<>>))

parse_history_payload(payload) ==
    LET found == candles_of(payload) IN
      IF found.t # "list" THEN Raised("ValueError")
      ELSE LET candles == found.v
               ts_col == IF has_column(candles, "datetime") THEN "datetime" ELSE "time"
               vol_col == IF has_column(candles, "volume") THEN "volume" ELSE "vol"
               src(c) == IF c = "volume" THEN vol_col ELSE c
           IN IF frame_empty(candles) THEN Returned(EmptyFrame)
              ELSE IF ~has_column(candles, ts_col) THEN Raised("KeyError")
              ELSE Returned(
                     [columns |-> Columns,
                      dtypes |-> [c \in {"ts"} \cup ValueColumns |->
                                    IF c = "ts" THEN "datetime64[ns, UTC]"
                                    ELSE column_dtype(candles, src(c))],
                      rows |-> [i \in 1..Len(candles) |->
                                  [c \in {"ts"} \cup ValueColumns |->
                                     IF c = "ts" THEN to_datetime(candles[i][ts_col])
                                     ELSE column_value(candles, src(c), i)]]])

\* ------------------------------------------------------------- _basic_qa

\* _INTERVAL_SECONDS.get(interval): 0 stands for None
INTERVAL_SECONDS(interval) ==
    CASE interval = <<"1", "m">> -> 60
      [] interval = <<"5", "m">> -> 300
      [] interval = <<"1", "5", "m">> -> 900
      [] interval = <<"3", "0", "m">> -> 1800
      [] interval = <<"6", "0", "m">> -> 3600
      [] interval = <<"1", "h">> -> 3600
      [] interval = <<"1", "d">> -> 86400
      [] interval = <<"d", "a", "y">> -> 86400
      [] OTHER -> 0

\* df.dropna(subset=["ts"])
dropna(rows) == SelectSeq(rows, LAMBDA r : r.ts # NaT)

\* The orders of the rows numbered in S that are ascending in ts
RECURSIVE AscendingOrders(_, _)
AscendingOrders(rows, S) ==
    IF S = {} THEN {<<>>}
    ELSE LET least == {i \in S : \A j \in S : rows[i].ts <= rows[j].ts} IN
           UNION {{<<i>> \o o : o \in AscendingOrders(rows, S \ {i})} : i \in least}

MutSortSkipped(rows) == {rows}

\* df.sort_values("ts"): kind defaults to "quicksort", which is not stable,
\* so rows that tie on ts come out in any order.
sort_values(rows) ==
    {[k \in 1..Len(rows) |-> rows[o[k]]] : o \in AscendingOrders(rows, 1..Len(rows))}

\* df.drop_duplicates(subset=["ts"], keep="last")
drop_duplicates(rows) ==
    LET kept(i) == \A j \in (i + 1)..Len(rows) : rows[j].ts # rows[i].ts
        RECURSIVE Pick(_)
        Pick(i) == IF i > Len(rows) THEN <<>>
                   ELSE IF kept(i) THEN <<rows[i]>> \o Pick(i + 1)
                   ELSE Pick(i + 1)
    IN Pick(1)

\* 1_000_000_000 nanoseconds, in the model's milliseconds
MS_PER_S == 1000

\* deltas: (ts.astype("int64").diff() // 1_000_000_000).fillna(0).astype(int).
\* ts is a whole number of milliseconds, so the floor division of the
\* nanoseconds by 10^9 is the floor division of the milliseconds by 1000.
deltas(rows) ==
    [i \in 1..Len(rows) |->
       IF i = 1 THEN 0
       ELSE (rows[i].ts - rows[i - 1].ts) \div MS_PER_S]

\* The line the gap check prints, <<>> when it prints nothing.  step * 1.5 is
\* compared as 2 * delta > 3 * step.
gap_report(rows, interval) ==
    LET step == INTERVAL_SECONDS(interval)
        d == deltas(rows)
        gaps == {i \in 1..Len(rows) : 2 * d[i] > 3 * step}
    IN IF step # 0 /\ Len(rows) > 2 /\ gaps # {}
       THEN <<[msg |-> "gap", interval |-> interval,
               first_gap |-> rows[CHOOSE i \in gaps : \A j \in gaps : i <= j].ts]>>
       ELSE <<>>

\* _basic_qa(df, interval): the [df, printed] it can end with
basic_qa(df, interval) ==
    IF df.rows = <<>> THEN {[df |-> df, printed |-> <<>>]}
    ELSE {[df |-> [df EXCEPT !.rows = drop_duplicates(sorted)],
           printed |-> gap_report(drop_duplicates(sorted), interval)] :
            sorted \in sort_values(dropna(df.rows))}

\* ------------------------------------------------- fetch_historical_bars

\* fetch_historical_bars(req) when api_get answers `response` (a payload
\* returned or an exception raised): the [ret, printed] it can end with
fetch_historical_bars(req, response) ==
    LET built == build_history_endpoint(req) IN
      IF built.exc # "none" THEN {[ret |-> built, printed |-> <<>>]}
      ELSE IF response.exc # "none" THEN {[ret |-> response, printed |-> <<>>]}
      ELSE LET parsed == parse_history_payload(response.val) IN
             IF parsed.exc # "none" THEN {[ret |-> parsed, printed |-> <<>>]}
             ELSE {[ret |-> Returned(q.df), printed |-> q.printed] :
                     q \in basic_qa(parsed.val, req.interval)}

\* ------------------------------------------------------------ cache store

\* DATA_ROOT, a path of one component
DATA_ROOT == << <<"d", "a", "t", "a">> >>

\* datetime.date(): the day of a time given in hours
date(t) == t \div 24

DigitChar(n) ==
    CASE n = 0 -> "0" [] n = 1 -> "1" [] n = 2 -> "2" [] n = 3 -> "3" [] n = 4 -> "4"
      [] n = 5 -> "5" [] n = 6 -> "6" [] n = 7 -> "7" [] n = 8 -> "8" [] n = 9 -> "9"

\* str(date): the fixed-width text of a date (the model's days have two
\* digits where ISO dates have YYYY-MM-DD)
date_str(d) == <<DigitChar(d \div 10), DigitChar(d % 10)>>

PARQUET == <<".", "p", "a", "r", "q", "u", "e", "t">>

MutNameWithoutEnd(symbol, interval, start_utc, end_utc) ==
    upper(symbol) \o <<"_">> \o interval \o <<"_">> \o date_str(date(start_utc)) \o PARQUET

\* f"{symbol.upper()}_{interval}_{start_utc.date()}_{end_utc.date()}.parquet"
cache_name(symbol, interval, start_utc, end_utc) ==
    upper(symbol) \o <<"_">> \o interval \o <<"_">> \o date_str(date(start_utc))
      \o <<"_">> \o date_str(date(end_utc)) \o PARQUET

\* DATA_ROOT / symbol.upper() / interval
cache_folder(symbol, interval) == DATA_ROOT \o <<upper(symbol), interval>>

\* The path cache_path returns
cache_path(symbol, interval, start_utc, end_utc) ==
    cache_folder(symbol, interval) \o <<cache_name(symbol, interval, start_utc, end_utc)>>

MutMkdirSkipped(ds, folder) == ds

\* folder.mkdir(parents=True, exist_ok=True): the directories afterwards
mkdir_parents(ds, folder) == ds \cup {SubSeq(folder, 1, n) : n \in 1..Len(folder)}

\* path.parent
parent(path) == SubSeq(path, 1, Len(path) - 1)

\* Truncation toward zero of a value held in tenths
trunc_tenths(v) == IF v >= 0 THEN (v \div 10) * 10 ELSE 0 - (((0 - v) \div 10) * 10)

\* One column of df.astype({...}, errors="ignore"): its dtype afterwards and
\* the cells that change. A cast that raises leaves the column as it is: a
\* text converts to neither dtype, None and NaN do not convert to int64.
astype_column(df, c, dtype) ==
    LET from == df.dtypes[c]
        cells == {df.rows[i][c] : i \in 1..Len(df.rows)}
        kept == [dtype |-> from, cell |-> [x \in cells |-> x]]
    IN CASE dtype = "float64" ->
              IF \E x \in cells : x.k = "str" THEN kept
              ELSE [dtype |-> "float64",
                    cell |-> [x \in cells |->
                                IF x.k = "int" THEN [k |-> "float", v |-> x.v]
                                ELSE IF x.k = "none" THEN NaN ELSE x]]
         [] dtype = "int64" ->
              IF \E x \in cells : x.k \in {"nan", "none", "str"} THEN kept
              ELSE [dtype |-> "int64",
                    cell |-> [x \in cells |-> [k |-> "int", v |-> trunc_tenths(x.v)]]]

MutSaveDtypesAllFloat == [c \in ValueColumns |-> "float64"]

\* The dtype save_parquet casts each column to
SAVE_DTYPES ==
    [c \in ValueColumns |-> IF c = "volume" THEN "int64" ELSE "float64"]

\* df.astype({"open": "float64", ..., "volume": "int64"}, errors="ignore")
save_astype(df) ==
    LET cast(c) == astype_column(df, c, SAVE_DTYPES[c]) IN
      [columns |-> df.columns,
       dtypes |-> [c \in DOMAIN df.dtypes |->
                     IF c \in ValueColumns THEN cast(c).dtype ELSE df.dtypes[c]],
       rows |-> [i \in 1..Len(df.rows) |->
                   [c \in DOMAIN df.rows[i] |->
                      IF c \in ValueColumns /\ df.rows[i][c] \in DOMAIN cast(c).cell
                      THEN cast(c).cell[df.rows[i][c]]
                      ELSE df.rows[i][c]]]]

\* The cells of column c
column_cells(df, c) == [i \in 1..Len(df.rows) |-> df.rows[i][c]]

\* A cell pandas and Arrow take for a missing value, in a column of that dtype
is_null(dtype, x) ==
    IF dtype = "datetime64[ns, UTC]" THEN x = NaT ELSE x.k \in {"nan", "none"}

ArrowNull == [k |-> "null", v |-> 0]

\* The Arrow type pa.Table.from_pandas gives a column; for an object column
\* it is inferred from the cells that are not missing, and "invalid" stands
\* for a column that mixes text with numbers, which Arrow refuses.
arrow_type(dtype, cells) ==
    LET kinds == {cells[i].k : i \in {j \in 1..Len(cells) : ~is_null(dtype, cells[j])}} IN
      CASE dtype = "datetime64[ns, UTC]" -> "timestamp[ns, tz=UTC]"
        [] dtype = "int64" -> "int64"
        [] dtype = "float64" -> "double"
        [] OTHER ->
             IF kinds = {} THEN "null"
             ELSE IF kinds = {"str"} THEN "string"
             ELSE IF kinds = {"int"} THEN "int64"
             ELSE IF kinds \subseteq {"int", "float"} THEN "double"
             ELSE "invalid"

\* One cell of a column of that dtype as a value of an Arrow array of that
\* type
arrow_value(type, dtype, x) ==
    IF is_null(dtype, x) THEN ArrowNull
    ELSE IF type = "timestamp[ns, tz=UTC]" THEN [k |-> "timestamp", v |-> x]
    ELSE IF type = "double" THEN [k |-> "float", v |-> x.v]
    ELSE x

\* df.to_parquet(path, index=False): the columnar file, a schema and one
\* array per column, or the ArrowInvalid / ArrowTypeError (both are
\* ArrowException) of a column Arrow cannot convert
to_parquet(df) ==
    LET type(n) == arrow_type(df.dtypes[df.columns[n]], column_cells(df, df.columns[n])) IN
      IF \E n \in 1..Len(df.columns) : type(n) = "invalid"
      THEN Raised("ArrowException")
      ELSE Returned(
             [schema |-> [n \in 1..Len(df.columns) |-> <<df.columns[n], type(n)>>],
              arrays |-> [n \in 1..Len(df.columns) |->
                            [i \in 1..Len(df.rows) |->
                               arrow_value(type(n), df.dtypes[df.columns[n]],
                                           df.rows[i][df.columns[n]])]]])

\* The dtype of a column pandas reads from an Arrow array: an int64 array
\* with nulls becomes float64, text and all-null arrays become object
pandas_dtype(type, array) ==
    CASE type = "timestamp[ns, tz=UTC]" -> "datetime64[ns, UTC]"
      [] type = "double" -> "float64"
      [] type = "int64" ->
           IF \E i \in 1..Len(array) : array[i] = ArrowNull THEN "float64" ELSE "int64"
      [] OTHER -> "object"

\* One value of such a column
pandas_value(type, dtype, x) ==
    IF x = ArrowNull
    THEN (IF type = "timestamp[ns, tz=UTC]" THEN NaT
          ELSE IF dtype = "float64" THEN NaN ELSE None)
    ELSE IF type = "timestamp[ns, tz=UTC]" THEN x.v
    ELSE IF type = "int64" /\ dtype = "float64" THEN [k |-> "float", v |-> x.v]
    ELSE x

\* pd.read_parquet(path) of such a file
read_parquet(file) ==
    LET names == [n \in 1..Len(file.schema) |-> file.schema[n][1]]
        at(c) == CHOOSE n \in 1..Len(names) : names[n] = c
        nrows == IF Len(file.arrays) = 0 THEN 0 ELSE Len(file.arrays[1])
        dtype(c) == pandas_dtype(file.schema[at(c)][2], file.arrays[at(c)])
    IN [columns |-> names,
        dtypes |-> [c \in {names[n] : n \in 1..Len(names)} |-> dtype(c)],
        rows |-> [i \in 1..nrows |->
                    [c \in {names[n] : n \in 1..Len(names)} |->
                       pandas_value(file.schema[at(c)][2], dtype(c), file.arrays[at(c)][i])]]]

\* What save_parquet prints
NothingToSave(path) == [msg |-> "nothing to save", name |-> path[Len(path)]]
Saved(n, path) == [msg |-> "saved", rows |-> n, path |-> path]

\* save_parquet(df, path) on the filesystem <<ds, fs>>: the exception or
\* None, the files afterwards and what is printed. to_parquet converts the
\* table before it opens the file, and refuses a path whose parent folder
\* does not exist with an OSError.
save_parquet(df, path, ds, fs) ==
    IF df.rows = <<>>
    THEN [ret |-> Returned(<<>>), files |-> fs, printed |-> <<NothingToSave(path)>>]
    ELSE IF to_parquet(save_astype(df)).exc # "none"
    THEN [ret |-> to_parquet(save_astype(df)), files |-> fs, printed |-> <<>>]
    ELSE IF parent(path) \notin ds
    THEN [ret |-> Raised("OSError"), files |-> fs, printed |-> <<>>]
    ELSE [ret |-> Returned(<<>>),
          files |-> [p \in DOMAIN fs \cup {path} |->
                       IF p = path THEN to_parquet(save_astype(df)).val ELSE fs[p]],
          printed |-> <<Saved(Len(df.rows), path)>>]

\* load_parquet(path)
load_parquet(path, fs) ==
    IF path \notin DOMAIN fs THEN EmptyFrame ELSE read_parquet(fs[path])

\* ---------------------------------------------------------- replay_rows

\* float(x) of a cell: TypeError for None, ValueError for a text
py_float(x) ==
    IF x.k = "none" THEN Raised("TypeError")
    ELSE IF x.k = "str" THEN Raised("ValueError")
    ELSE IF x.k = "nan" THEN Returned(NaN)
    ELSE Returned([k |-> "float", v |-> x.v])

\* int(row.volume) if pd.notna(row.volume) else 0
py_volume(x) ==
    IF x.k \in {"none", "nan"} THEN Returned([k |-> "int", v |-> 0])
    ELSE IF x.k = "str" THEN Raised("ValueError")
    ELSE Returned([k |-> "int", v |-> trunc_tenths(x.v)])

PriceColumns == {"open", "high", "low", "close"}

\* The fields of a record after ts, in the order the dict is built
ReplayFields == <<"open", "high", "low", "close", "volume">>

\* Field n of the record of row i
replay_field(df, i, n) ==
    IF ReplayFields[n] = "volume" THEN py_volume(df.rows[i]["volume"])
    ELSE py_float(df.rows[i][ReplayFields[n]])

\* list(replay_rows(df)): the records, or the exception the generator
\* raises at the first field that does not convert
replay_rows(df) ==
    LET failures == {f \in (1..Len(df.rows)) \X (1..Len(ReplayFields)) :
                       replay_field(df, f[1], f[2]).exc # "none"}
        first == CHOOSE f \in failures :
                   \A g \in failures : f[1] < g[1] \/ (f[1] = g[1] /\ f[2] <= g[2])
    IN IF failures # {} THEN Raised(replay_field(df, first[1], first[2]).exc)
       ELSE Returned([i \in 1..Len(df.rows) |->
                        [c \in {"ts"} \cup ValueColumns |->
                           IF c = "ts" THEN df.rows[i].ts
                           ELSE IF c = "volume" THEN py_volume(df.rows[i][c]).val
                           ELSE py_float(df.rows[i][c]).val]])

\* api_get(endpoint, params) as fetch_historical_bars sees it: the payload,
\* the dict _parse_json makes of a body that is no JSON (it has neither
\* key), or the HTTPError of raise_for_status
NoKeysPayload == [candles |-> JOther("absent"), data |-> JOther("absent")]

api_get(script, body, payload) ==
    IF raise_for_status(last_status(script)).exc # "none"
    THEN raise_for_status(last_status(script))
    ELSE IF body = "json" THEN Returned(payload)
    ELSE Returned(NoKeysPayload)

\* ------------------------------------ specification: parse_history_payload

GoodCandle == [NoCandle EXCEPT !["datetime"] = IntCell(0), !["close"] = FltCell(96)]
NoTsCandle == [NoCandle EXCEPT !["open"] = FltCell(95)]

PayloadValues ==
    {JOther(kind) : kind \in {"absent", "null", "zero", "int", "emptystr", "str",
                              "emptydict", "dict", "false", "true"}}
      \cup {JList(<<>>), JList(<<GoodCandle>>), JList(<<GoodCandle, GoodCandle>>),
            JList(<<NoTsCandle>>), JList(<<NoCandle>>)}

InitParse ==
    /\ op = "init"
    /\ arg \in [candles : PayloadValues, data : PayloadValues]
    /\ ret = Returned(<<>>)
    /\ stdout = <<>> /\ dirs = {} /\ files = <<>> /\ fs0 = <<{}, <<>>>> /\ local = <<>>
    /\ SessionIdle

ParseHistoryPayload ==
    /\ op = "init"
    /\ op' = "parse_history_payload"
    /\ ret' = parse_history_payload(arg)
    /\ fs0' = <<dirs, files>>
    /\ UNCHANGED <<arg, stdout, dirs, files, local, session_vars>>

NextParse == ParseHistoryPayload

SpecParse == InitParse /\ [][NextParse]_vars

\* ------------------------------------ specification: fetch_historical_bars

\* Bar times in milliseconds: deltas of 60 s, 90.5 s, 91 s and more
QaTimes == {0, 60000, 150500, 241500}
QaCells == {Null} \cup {IntCell(t) : t \in QaTimes}
QaIntervals == {<<"1", "m">>, <<"5", "m">>, <<"2", "m">>}

\* The i-th candle of a payload carries its position as its close
QaCandles(ds) ==
    [i \in 1..Len(ds) |->
       [NoCandle EXCEPT !["datetime"] = ds[i], !["close"] = IntCell(10 * i)]]

InitQA ==
    /\ op = "init"
    /\ \E ds \in SeqsUpTo(QaCells, MaxCandles), iv \in QaIntervals :
         arg = [req |-> [symbol |-> nwl, interval |-> iv, start_utc |-> 0, end_utc |-> 24],
                script |-> <<200>>, body |-> "json",
                payload |-> [candles |-> JList(QaCandles(ds)), data |-> JOther("absent")]]
    /\ ret = Returned(<<>>)
    /\ stdout = <<>> /\ dirs = {} /\ files = <<>> /\ fs0 = <<{}, <<>>>> /\ local = <<>>
    /\ SessionIdle

\* One call of fetch_historical_bars(symbol, interval, start_utc, end_utc)
FetchHistoricalBars ==
    /\ op = "init"
    /\ op' = "fetch_historical_bars"
    /\ \E out \in fetch_historical_bars(
                    arg.req, api_get(arg.script, arg.body, arg.payload)) :
         /\ ret' = out.ret
         /\ stdout' = out.printed
         /\ local' = IF out.ret.exc = "none" THEN Bind(local, "df", out.ret.val) ELSE local
    /\ IF build_history_endpoint(arg.req).exc = "none"
       THEN Transport(arg.script)
       ELSE UNCHANGED <<session_vars, files>>
    /\ fs0' = <<dirs, files>>
    /\ UNCHANGED <<arg, dirs>>

NextQA == FetchHistoricalBars

SpecQA == InitQA /\ [][NextQA]_vars

\* ------------------------------------ specification: save, load, replay

TypedCandles ==
    {[NoCandle EXCEPT !["datetime"] = IntCell(0), !["open"] = FltCell(95),
                      !["high"] = FltCell(97), !["low"] = FltCell(94),
                      !["close"] = FltCell(96), !["volume"] = IntCell(50)],
     [NoCandle EXCEPT !["datetime"] = IntCell(60000), !["open"] = IntCell(90),
                      !["high"] = IntCell(100), !["low"] = IntCell(90),
                      !["close"] = IntCell(100), !["volume"] = FltCell(125)],
     [NoCandle EXCEPT !["datetime"] = IntCell(60000), !["open"] = FltCell(96),
                      !["high"] = FltCell(98), !["low"] = FltCell(95),
                      !["close"] = FltCell(97), !["volume"] = Null],
     [NoCandle EXCEPT !["datetime"] = IntCell(120000), !["vol"] = IntCell(70)],
     [NoCandle EXCEPT !["time"] = IntCell(0), !["close"] = FltCell(96)],
     [NoCandle EXCEPT !["datetime"] = StrCell, !["open"] = FltCell(95),
                      !["high"] = FltCell(97), !["low"] = FltCell(94),
                      !["close"] = FltCell(96), !["volume"] = IntCell(60)],
     [NoCandle EXCEPT !["datetime"] = IntCell(0), !["open"] = Null, !["high"] = Null,
                      !["low"] = Null, !["close"] = Null, !["volume"] = IntCell(80)],
     [NoCandle EXCEPT !["datetime"] = IntCell(120000), !["open"] = FltCell(96),
                      !["high"] = FltCell(99), !["low"] = FltCell(96),
                      !["close"] = FltCell(98), !["volume"] = IntCell(90)],
     [NoCandle EXCEPT !["datetime"] = IntCell(60000), !["open"] = StrCell,
                      !["high"] = FltCell(98), !["low"] = FltCell(95),
                      !["close"] = FltCell(97), !["volume"] = IntCell(40)],
     [NoCandle EXCEPT !["datetime"] = IntCell(120000), !["open"] = FltCell(96),
                      !["high"] = FltCell(99), !["low"] = FltCell(96),
                      !["close"] = FltCell(98), !["volume"] = StrCell]}

StoreReq == [symbol |-> nwl, interval |-> <<"1", "m">>, start_utc |-> 0, end_utc |-> 24]

InitStore ==
    /\ op = "init"
    /\ \E cs \in SeqsUpTo(TypedCandles, MaxTypedCandles) :
         arg = [req |-> StoreReq, script |-> <<200>>, body |-> "json",
                payload |-> [candles |-> JList(cs), data |-> JOther("absent")]]
    /\ ret = Returned(<<>>)
    /\ stdout = <<>> /\ dirs = {} /\ files = <<>> /\ fs0 = <<{}, <<>>>> /\ local = <<>>
    /\ SessionIdle

\* The <<request, path>> pairs cache_path has returned to the caller
paths_of(l) == IF "paths" \in DOMAIN l THEN l["paths"] ELSE {}

\* One call of cache_path(symbol, interval, start_utc, end_utc)
CachePathCall(req) ==
    /\ op' = "cache_path"
    /\ arg' = req
    /\ dirs' = mkdir_parents(dirs, cache_folder(req.symbol, req.interval))
    /\ LET path == cache_path(req.symbol, req.interval, req.start_utc, req.end_utc) IN
         /\ ret' = Returned(path)
         /\ local' = Bind(Bind(local, "path", path),
                          "paths", paths_of(local) \cup {<<req, path>>})
    /\ stdout' = <<>>
    /\ fs0' = <<dirs, files>>
    /\ UNCHANGED <<files, session_vars>>

StoreCachePath ==
    /\ op = "fetch_historical_bars" /\ ret.exc = "none"
    /\ CachePathCall(arg.req)

\* save_parquet(df, path) with the table and the path the caller holds
SaveParquet ==
    /\ op = "cache_path"
    /\ "df" \in DOMAIN local
    /\ LET sv == save_parquet(local["df"], local["path"], dirs, files) IN
         /\ ret' = sv.ret
         /\ files' = sv.files
         /\ stdout' = sv.printed
    /\ op' = "save_parquet"
    /\ arg' = [df |-> local["df"], path |-> local["path"]]
    /\ fs0' = <<dirs, files>>
    /\ UNCHANGED <<dirs, local, session_vars>>

\* load_parquet(path) with the path the caller holds, once save_parquet
\* has returned
LoadParquet ==
    /\ op = "save_parquet" /\ ret.exc = "none"
    /\ ret' = Returned(load_parquet(local["path"], files))
    /\ local' = Bind(local, "loaded", load_parquet(local["path"], files))
    /\ op' = "load_parquet"
    /\ arg' = [path |-> local["path"]]
    /\ stdout' = <<>>
    /\ fs0' = <<dirs, files>>
    /\ UNCHANGED <<dirs, files, session_vars>>

\* list(replay_rows(df)) of the table just fetched or just loaded
ReplayRows ==
    /\ op \in {"fetch_historical_bars", "load_parquet"} /\ ret.exc = "none"
    /\ ret' = replay_rows(ret.val)
    /\ local' = Bind(local, "replayed", replay_rows(ret.val))
    /\ op' = "replay_rows"
    /\ arg' = [df |-> ret.val]
    /\ stdout' = <<>>
    /\ fs0' = <<dirs, files>>
    /\ UNCHANGED <<dirs, files, session_vars>>

\* A fresh call of replay_rows on the same table
ReplayRowsAgain ==
    /\ op = "replay_rows"
    /\ ret' = replay_rows(arg.df)
    /\ op' = "replay_rows_again"
    /\ stdout' = <<>>
    /\ fs0' = <<dirs, files>>
    /\ UNCHANGED <<arg, local, dirs, files, session_vars>>

NextStore ==
    \/ FetchHistoricalBars
    \/ StoreCachePath
    \/ SaveParquet
    \/ LoadParquet
    \/ ReplayRows
    \/ ReplayRowsAgain

SpecStore == InitStore /\ [][NextStore]_vars

\* ------------------------------------------- specification: cache_path

CacheSymbols == {nwl, NWL, <<"a", "b">>}
CacheIntervals == {<<"1", "m">>, <<"1", "d">>}
CacheReqs ==
    [symbol : CacheSymbols, interval : CacheIntervals, start_utc : {0, 12}, end_utc : {24, 48}]

InitCachePath ==
    /\ op = "init" /\ arg = <<>> /\ ret = Returned(<<>>)
    /\ stdout = <<>> /\ dirs = {} /\ files = <<>> /\ fs0 = <<{}, <<>>>> /\ local = <<>>
    /\ SessionIdle

CachePath ==
    /\ Cardinality(paths_of(local)) < MaxPathCalls
    /\ \E req \in CacheReqs : CachePathCall(req)

NextCachePath == CachePath

SpecCachePath == InitCachePath /\ [][NextCachePath]_vars

\* --------------------------------------- specification: fetch_and_cache

FetchReqs ==
    {[symbol |-> nwl, interval |-> <<"1", "m">>, start_utc |-> 0, end_utc |-> 24],
     [symbol |-> nwl, interval |-> <<"d", "m">>, start_utc |-> 0, end_utc |-> 24],
     [symbol |-> <<"a", "b">>, interval |-> <<"1", "m">>, start_utc |-> 0, end_utc |-> 24]}

OtherCandle == [GoodCandle EXCEPT !["close"] = FltCell(99)]

\* A later candle whose close is a text
TextCandle == [NoCandle EXCEPT !["datetime"] = IntCell(60000), !["close"] = StrCell]

\* <<server script, body, value under 'candles'>> of the answers api_get gets
FetchAnswers ==
    {<<<<500>>, "json", JList(<<>>)>>,
     <<<<200>>, "text", JList(<<>>)>>,
     <<<<200>>, "json", JOther("dict")>>,
     <<<<200>>, "json", JList(<<>>)>>,
     <<<<200>>, "json", JList(<<NoTsCandle>>)>>,
     <<<<200>>, "json", JList(<<GoodCandle>>)>>,
     <<<<401, 200>>, "json", JList(<<GoodCandle>>)>>,
     <<<<200>>, "json", JList(<<GoodCandle, TextCandle>>)>>,
     <<<<500, 200>>, "json", JList(<<OtherCandle>>)>>}

InitFetchAndCache ==
    /\ op = "init" /\ arg = <<>> /\ ret = Returned(<<>>)
    /\ stdout = <<>> /\ dirs = {}
    /\ files \in TokenFiles /\ fs0 = <<{}, files>>
    /\ local = [calls |-> 0]
    /\ _session = 0 /\ session_calls = 0 /\ session_rets = {}
    /\ TEST_MODE \in BOOLEAN
    /\ wire = <<>>

\* One call of fetch_and_cache(symbol, interval, start_utc, end_utc) that
\* the server answers following `script`
FetchAndCacheCall(req, script, body, payload) ==
    LET sent == build_history_endpoint(req).exc = "none"
        fetched == IF sent THEN request_effect(script).files ELSE files
    IN /\ op' = "fetch_and_cache"
       /\ arg' = [req |-> req, script |-> script, body |-> body, payload |-> payload]
       /\ \E out \in fetch_historical_bars(req, api_get(script, body, payload)) :
            IF out.ret.exc # "none"
            THEN /\ ret' = out.ret
                 /\ stdout' = out.printed
                 /\ files' = fetched
                 /\ UNCHANGED dirs
            ELSE LET path == cache_path(req.symbol, req.interval, req.start_utc, req.end_utc)
                     ds == mkdir_parents(dirs, cache_folder(req.symbol, req.interval))
                     sv == save_parquet(out.ret.val, path, ds, fetched)
                 IN /\ dirs' = ds
                    /\ files' = sv.files
                    /\ stdout' = out.printed \o sv.printed
                    /\ ret' = IF sv.ret.exc # "none" THEN sv.ret ELSE Returned(path)
       /\ IF sent
          THEN SessionAfter(request_effect(script))
          ELSE UNCHANGED session_vars
       /\ fs0' = <<dirs, files>>

FetchAndCache ==
    /\ local["calls"] < MaxFetches
    /\ local' = [local EXCEPT !["calls"] = @ + 1]
    /\ \E req \in FetchReqs, a \in FetchAnswers :
         FetchAndCacheCall(req, a[1], a[2],
                           [candles |-> a[3], data |-> JOther("absent")])

NextFetchAndCache == FetchAndCache

SpecFetchAndCache == InitFetchAndCache /\ [][NextFetchAndCache]_vars

\* ------------------------------------------------------------------ claims

\* C1 as stated: parse_history_payload fails (ValueError, the spec's
\* MalformedPayload) for every payload in which neither 'candles' nor 'data'
\* holds a list.
ParseFailsWithoutAList ==
    (op = "parse_history_payload" /\ arg["candles"].t # "list" /\ arg["data"].t # "list")
        => ret.exc = "ValueError"

\* C1 amended: parse_history_payload raises ValueError exactly when the first
\* truthy value among payload['candles'], payload['data'] is not a list; when
\* both keys are absent or hold falsy values it returns the empty six-column
\* table.
ParseFailsOnTruthyNonList ==
    op = "parse_history_payload" =>
        LET c == arg["candles"]
            d == arg["data"]
            c_set == c.t \notin {"absent", "null", "zero", "emptystr", "emptydict", "false"}
                       /\ c # JList(<<>>)
            d_set == d.t \notin {"absent", "null", "zero", "emptystr", "emptydict", "false"}
                       /\ d # JList(<<>>)
        IN /\ (ret.exc = "ValueError") <=>
                  ((c_set /\ c.t # "list") \/ (~c_set /\ d_set /\ d.t # "list"))
           /\ (~c_set /\ ~d_set) => ret = Returned(EmptyFrame)

\* Both keys absent: the empty table is returned
ParseWitness ==
    /\ op = "parse_history_payload"
    /\ arg["candles"].t = "absent" /\ arg["data"].t = "absent"
    /\ ret = Returned(EmptyFrame)

\* C2: the table fetch_historical_bars returns (the one _basic_qa returns)
\* has no null ts and its ts strictly increase from each row to the next.
QaStrictlyIncreasing ==
    (op = "fetch_historical_bars" /\ ret.exc = "none") =>
        /\ \A i \in 1..Len(ret.val.rows) : ret.val.rows[i].ts # NaT
        /\ \A i \in 1..(Len(ret.val.rows) - 1) : ret.val.rows[i].ts < ret.val.rows[i + 1].ts

\* A payload with a null, a repeated and an out-of-order timestamp, cleaned
\* to two rows
QaWitness ==
    /\ op = "fetch_historical_bars" /\ ret.exc = "none"
    /\ Len(arg.payload["candles"].v) = 4
    /\ arg.payload["candles"].v[1]["datetime"] = IntCell(60000)
    /\ arg.payload["candles"].v[2]["datetime"] = Null
    /\ arg.payload["candles"].v[3]["datetime"] = IntCell(0)
    /\ arg.payload["candles"].v[4]["datetime"] = IntCell(60000)
    /\ Len(ret.val.rows) = 2

\* C9 as stated: the row _basic_qa keeps for a ts is the last one in payload
\* order among the rows with that ts.
DedupeKeepsLastOfPayload ==
    (op = "fetch_historical_bars" /\ ret.exc = "none") =>
        \A i \in 1..Len(ret.val.rows) :
            LET cs == arg.payload["candles"].v
                same == {j \in 1..Len(cs) : to_datetime(cs[j]["datetime"]) = ret.val.rows[i].ts}
            IN ret.val.rows[i]["close"].v = 10 * (CHOOSE j \in same : \A l \in same : l <= j)

\* C10 as stated: for a known step and more than 2 cleaned rows a gap is
\* printed if and only if some successive delta exceeds 1.5 times the step
\* (in milliseconds: 2 * delta > 3000 * step), and the timestamp printed is
\* that of the first row after such a delta.
GapReportedIffDeltaExceeds ==
    (op = "fetch_historical_bars" /\ ret.exc = "none"
       /\ INTERVAL_SECONDS(arg.req.interval) # 0 /\ Len(ret.val.rows) > 2) =>
        LET rows == ret.val.rows
            late == {i \in 2..Len(rows) :
                       2 * (rows[i].ts - rows[i - 1].ts)
                         > 3000 * INTERVAL_SECONDS(arg.req.interval)}
        IN /\ (stdout # <<>>) <=> (late # {})
           /\ stdout # <<>> =>
                stdout[1].first_gap = rows[CHOOSE i \in late : \A j \in late : i <= j].ts

\* C8: starting from an unset module session, once _session_pooled has been
\* called at least once (directly or through a request) the Session
\* constructor has been invoked exactly once, and every call so far returned
\* the same instance, which is the module's session.
SessionSingleton ==
    (op # "init") =>
        /\ session_calls = 1
        /\ session_rets = {_session}
        /\ \A i \in 1..Len(wire) : wire[i][1] = _session

\* Three calls have been made, among them a request the adapter re-sent
SessionSingletonWitness ==
    /\ Len(arg) >= 3
    /\ \E i \in 1..Len(wire) : wire[i][3] = 500
    /\ arg[1] = "_session_pooled"
    /\ session_calls = 1

\* The longest prefix of s made of digits
RECURSIVE LeadingDigits(_)
LeadingDigits(s) ==
    IF s = <<>> \/ Head(s) \notin Digits THEN <<>>
    ELSE <<Head(s)>> \o LeadingDigits(Tail(s))

\* C3 as stated: build_history_endpoint returns for every interval string:
\* 'minute' and 60 for '60m' and '1h', 'minute' and the leading integer for
\* any other interval ending in 'm', 'daily' and 1 for every other string.
EndpointTotal ==
    op = "build_history_endpoint" =>
        /\ ret.exc = "none"
        /\ LET iv == arg.interval IN
             IF iv \in {<<"6", "0", "m">>, <<"1", "h">>}
             THEN ret.val.frequencyType = "minute" /\ ret.val.frequency = 60
             ELSE IF endswith(iv, "m")
             THEN /\ ret.val.frequencyType = "minute"
                  /\ ret.val.frequency = DecVal(LeadingDigits(iv))
             ELSE ret.val.frequencyType = "daily" /\ ret.val.frequency = 1

\* C3 amended: build_history_endpoint raises ValueError exactly for an
\* interval that ends in 'm' and, with every 'm' removed, is no text int()
\* accepts (blanks around an optional sign and at most 4300 decimal digits
\* of any script); otherwise it returns 'minute' with that integer (the leading
\* integer of digits followed by 'm', 60 for '60m', 3 for ' 3m', '3 m' and
\* an Arabic-Indic three followed by 'm'), 'minute' and 60 for '1h', and
\* 'daily' and 1 for every other string; it touches no file.
EndpointMapping ==
    op = "build_history_endpoint" =>
        LET iv == arg.interval
            rest == SelectSeq(iv, LAMBDA ch : ch # "m")
            digits_then_m == /\ Len(iv) >= 2
                             /\ Len(iv) - 1 <= INT_MAX_STR_DIGITS
                             /\ iv[Len(iv)] = "m"
                             /\ \A i \in 1..(Len(iv) - 1) : iv[i] \in Digits
        IN /\ ret.exc \in {"none", "ValueError"}
           /\ (ret.exc = "ValueError") <=> (endswith(iv, "m") /\ ~PyIntOk(rest))
           /\ (ret.exc = "none" /\ endswith(iv, "m")) =>
                 ret.val.frequencyType = "minute" /\ ret.val.frequency = PyInt(rest)
           /\ digits_then_m =>
                 /\ ret.exc = "none"
                 /\ ret.val.frequencyType = "minute"
                 /\ ret.val.frequency = DecVal(LeadingDigits(iv))
           /\ (endswith(iv, "m") /\ Len(iv) > INT_MAX_STR_DIGITS + 1
                 /\ \A i \in 1..(Len(iv) - 1) : iv[i] \in Digits) =>
                 ret.exc = "ValueError"
           /\ iv \in {<<" ", "3", "m">>, <<"3", " ", "m">>, <<"U+0663", "m">>} =>
                 ret.exc = "none" /\ ret.val.frequencyType = "minute" /\ ret.val.frequency = 3
           /\ iv \in {<<"6", "0", "m">>, <<"1", "h">>} =>
                 ret.exc = "none" /\ ret.val.frequencyType = "minute" /\ ret.val.frequency = 60
           /\ (~endswith(iv, "m") /\ iv # <<"1", "h">>) =>
                 ret.exc = "none" /\ ret.val.frequencyType = "daily" /\ ret.val.frequency = 1
           /\ <<dirs, files>> = fs0

\* '30m' gives minute bars of 30
EndpointWitness ==
    /\ op = "build_history_endpoint"
    /\ arg.interval = <<"3", "0", "m">>
    /\ ret.exc = "none"
    /\ ret.val.frequencyType = "minute" /\ ret.val.frequency = 30

\* The table the caller saved is not empty and passed QA, save_parquet has
\* returned and load_parquet has read the path
SavedQaTable ==
    /\ op = "load_parquet"
    /\ local["df"].rows # <<>>

\* OHLC columns of dtype float64 and a volume column of dtype int64
CanonicalDtypes(df) ==
    /\ \A c \in PriceColumns : df.dtypes[c] = "float64"
    /\ df.dtypes["volume"] = "int64"

\* Column c of df holds a text / a number
HoldsText(df, c) == \E i \in 1..Len(df.rows) : df.rows[i][c].k = "str"
HoldsNumber(df, c) == \E i \in 1..Len(df.rows) : df.rows[i][c].k \in {"int", "float"}

CacheKey(req) ==
    <<upper(req.symbol), req.interval, date(req.start_utc), date(req.end_utc)>>

\* Over all the calls made so far: the same key gave the same path, and
\* distinct keys gave distinct paths
PathsInjective ==
    \A a \in paths_of(local), b \in paths_of(local) :
        (CacheKey(a[1]) = CacheKey(b[1])) <=> (a[2] = b[2])

\* C5 as stated: cache_path is an injective function of the cache key, the
\* same whatever calls came before, and a call changes no state outside its
\* arguments.
CachePathPure ==
    /\ PathsInjective
    /\ op = "cache_path" => <<dirs, files>> = fs0

\* C5 amended: the path cache_path returns is an injective function of the
\* cache key, the same whatever calls came before; the call changes no file,
\* and creates the directory DATA_ROOT/SYMBOL/interval with its parents when
\* they do not exist.
CachePathInjectiveWithMkdir ==
    /\ PathsInjective
    /\ op = "cache_path" =>
         /\ files = fs0[2]
         /\ dirs = fs0[1] \cup {DATA_ROOT,
                                DATA_ROOT \o <<upper(arg.symbol)>>,
                                DATA_ROOT \o <<upper(arg.symbol), arg.interval>>}
         /\ SubSeq(ret.val, 1, Len(ret.val) - 1) \in dirs

\* Two calls whose symbols differ in case only, and whose start times differ
\* within one day, returned one path; the second call found the directory
CachePathWitness ==
    /\ op = "cache_path"
    /\ dirs = fs0[1]
    /\ \E a \in paths_of(local), b \in paths_of(local) :
         /\ a[1].symbol # b[1].symbol
         /\ a[1].start_utc # b[1].start_utc
         /\ a[2] = b[2]

\* save_parquet printed that the table was empty
PrintedNothingToSave == \E i \in 1..Len(stdout) : stdout[i].msg = "nothing to save"

\* Every file but the one at path p is as it was when the call began
OtherFilesKept(p) ==
    /\ DOMAIN files \ {p} = DOMAIN fs0[2] \ {p}
    /\ \A q \in DOMAIN files \ {p} : files[q] = fs0[2][q]

\* Every file but the token file and the one at path p is as it was when
\* the call began
CacheFilesKept(p) ==
    /\ DOMAIN files \ {p, TOKEN_PATH} = DOMAIN fs0[2] \ {p, TOKEN_PATH}
    /\ \A q \in DOMAIN files \ {p, TOKEN_PATH} : files[q] = fs0[2][q]

\* The token file is as it was when the call began
TokenFileKept ==
    /\ (TOKEN_PATH \in DOMAIN files) <=> (TOKEN_PATH \in DOMAIN fs0[2])
    /\ TOKEN_PATH \in DOMAIN files => files[TOKEN_PATH] = fs0[2][TOKEN_PATH]

\* The interval of the call is one build_history_endpoint accepts, so that
\* the request is sent
RequestSent == frequency_of(arg.req.interval).exc = "none"

\* The server answered some HTTP request of the call with 401
Answered401 ==
    \E i \in 1..Len(arg.script) : arg.script[i] = 401

\* C6 as stated: when the fetch or the normalization fails, or the cleaned
\* table is empty, the filesystem after fetch_and_cache is the filesystem
\* before it; otherwise only the file at the returned path is created or
\* replaced.
FetchAndCacheOnlyWritesItsFile ==
    op = "fetch_and_cache" =>
        /\ (ret.exc # "none" \/ PrintedNothingToSave) => <<dirs, files>> = fs0
        /\ (ret.exc = "none" /\ ~PrintedNothingToSave) => OtherFilesKept(ret.val)

\* C6 amended.  The token file: a call in test mode, or one whose interval
\* is refused before any request is sent, leaves it as it was; any other
\* call leaves a readable token file behind, which it has written when
\* there was none to read (the placeholder token) or when the server
\* answered 401 (the refreshed token), and otherwise left as it was.  The
\* cache: when the fetch or the normalization fails, no directory and no
\* file but the token file has changed; otherwise the call creates the
\* directory DATA_ROOT/SYMBOL/interval with its parents when they do not
\* exist; when save_parquet then fails to convert the table, no file but the
\* token file has changed; when the call returns, every file but the token
\* file and the one at the returned path is as it was, that file is written
\* when the cleaned table has rows and left as it was (absent or not) when
\* it has none.
FetchAndCacheFrame ==
    op = "fetch_and_cache" =>
        LET folder == DATA_ROOT \o <<upper(arg.req.symbol), arg.req.interval>>
            made == fs0[1] \cup {SubSeq(folder, 1, n) : n \in 1..Len(folder)}
            token0 == IF TOKEN_PATH \in DOMAIN fs0[2] THEN fs0[2][TOKEN_PATH] ELSE <<>>
            readable0 == token0 # <<>> /\ token0 # UnreadableToken
        IN /\ (TEST_MODE \/ ~RequestSent) => TokenFileKept
           /\ (~TEST_MODE /\ RequestSent) =>
                 /\ TOKEN_PATH \in DOMAIN files
                 /\ Answered401 => files[TOKEN_PATH].access_token = "local-refreshed-token"
                 /\ (~Answered401 /\ ~readable0) =>
                       files[TOKEN_PATH].access_token = "local-placeholder-token"
                 /\ (~Answered401 /\ readable0) => TokenFileKept
           /\ ret.exc \in {"none", "ValueError", "KeyError", "HTTPError", "ArrowException"}
           /\ ret.exc \in {"ValueError", "KeyError", "HTTPError"} =>
                 /\ dirs = fs0[1]
                 /\ CacheFilesKept(TOKEN_PATH)
           /\ ret.exc = "ArrowException" =>
                 /\ dirs = made
                 /\ CacheFilesKept(TOKEN_PATH)
           /\ ret.exc = "none" =>
                 /\ ret.val = folder \o <<ret.val[Len(ret.val)]>>
                 /\ dirs = made
                 /\ CacheFilesKept(ret.val)
                 /\ PrintedNothingToSave => CacheFilesKept(TOKEN_PATH)
                 /\ ~PrintedNothingToSave => ret.val \in DOMAIN files

\* An empty table on a fresh filesystem, outside test mode: the path is
\* returned, no file is written at it, the directory has been created, and
\* the token file has been written
FetchAndCacheWitness ==
    /\ op = "fetch_and_cache"
    /\ ret.exc = "none"
    /\ PrintedNothingToSave
    /\ fs0 = <<{}, <<>>>>
    /\ ~TEST_MODE
    /\ SubSeq(ret.val, 1, Len(ret.val) - 1) \in dirs
    /\ ret.val \notin DOMAIN files
    /\ TOKEN_PATH \in DOMAIN files

\* C7 as stated: replay_rows yields, without failing, one record per row of
\* the table in row order, with volume a non-negative integer and
\* open/high/low/close floating-point values, and yields the same sequence
\* when called again.
ReplayYieldsEveryRow ==
    op \in {"replay_rows", "replay_rows_again"} =>
        /\ ret.exc = "none"
        /\ Len(ret.val) = Len(arg.df.rows)
        /\ \A i \in 1..Len(ret.val) :
             /\ ret.val[i].ts = arg.df.rows[i].ts
             /\ ret.val[i]["volume"].k = "int" /\ ret.val[i]["volume"].v >= 0
             /\ \A c \in PriceColumns : ret.val[i][c].k \in {"float", "nan"}
        /\ op = "replay_rows_again" => ret = local["replayed"]

====
